---- MODULE Spec2Model ----
(***************************************************************************)
(* A model of youtube_down.py: the VideoInfoThread and DownloadThread      *)
(* background executions and the YouTubeDownloader window that starts them *)
(* and handles their signals.                                              *)
(*                                                                         *)
(* A Python dict is a function from its keys to its values; dict.get(k, d) *)
(* is Get(dict, k, d), so an absent key is told apart from a key that      *)
(* holds a value.  Text that the code pattern-matches (the URL) is a       *)
(* sequence of tokens; text that the code only builds is a string.         *)
(* A bitrate (abr) is kept in tenths of a kbps, so 1285 stands for 128.5.  *)
(* The append-only log widget is left out; every other field a handler     *)
(* writes is a variable.                                                   *)
(***************************************************************************)
EXTENDS Integers, Sequences, FiniteSets, TLC

VARIABLES
    url_entry,       \* text of the URL field (a sequence of tokens)
    save_entry,      \* text of the save location field
    radio_video,     \* TRUE: "Video + Audio" is checked, FALSE: "Audio Only"
    video_list,      \* the video QListWidget: [items, row], row = -1 for none
    audio_list,      \* the audio QListWidget: [items, row]
    video_formats,   \* self.video_formats: sequence of <<quality_str, format_id, fmt>>
    audio_formats,   \* self.audio_formats
    fetch_btn,       \* fetch_btn.isEnabled()
    download_btn,    \* download_btn.isEnabled()
    status_label,
    progress_label,
    ydl_opts_base,   \* self.ydl_opts_base
    threads,         \* the QThreads that are executing run()
    events,          \* signals emitted by the threads, queued for the window
    dirs,            \* the directories that exist on disk (fixed during a run)
    resolved,        \* how the latest resolve stands, its URL, and whether an
                     \* "Audio Only" download followed it (observation only)
    last             \* what the latest step did (observation only)

vars == <<url_entry, save_entry, radio_video, video_list, audio_list,
          video_formats, audio_formats, fetch_btn, download_btn, status_label,
          progress_label, ydl_opts_base, threads, events, dirs, resolved, last>>

\* The fields of the window that make up the session.
session == <<video_list, audio_list, video_formats, audio_formats, fetch_btn,
             download_btn, status_label, progress_label, ydl_opts_base,
             threads, events>>

----------------------------------------------------------------------------
\* Bounds of the model.

\* Longest format list a probe returns.
MaxFormats == 3

\* Most progress callbacks during one download.
MaxProgress == 1

----------------------------------------------------------------------------
\* Python helpers.

Get(d, k, default) == IF k \in DOMAIN d THEN d[k] ELSE default

\* "d[k] = v" on a dict.
SetItem(d, k, v) == (k :> v) @@ d

\* Python truth of a number: 0 (and None, which Get gives as 0) is false.
Truthy(n) == n # 0

\* The number of bytes in a MiB, 1024*1024.
MiB == 1048576

RECURSIVE Count(_, _)
Count(x, s) ==
    IF s = <<>> THEN 0
    ELSE (IF Head(s) = x THEN 1 ELSE 0) + Count(x, Tail(s))

\* An insertion that puts x in front of the entries with an equal key.
RECURSIVE InsertDesc_Front(_, _, _)
InsertDesc_Front(x, s, k) ==
    IF s = <<>> THEN <<x>>
    ELSE IF Get(Head(s)[3], k, 0) > Get(x[3], k, 0)
         THEN <<Head(s)>> \o InsertDesc_Front(x, Tail(s), k)
         ELSE <<x>> \o s

\* list.sort(key=..., reverse=True): descending and stable.  InsertDesc puts x
\* behind every entry whose key is at least key(x).
RECURSIVE InsertDesc(_, _, _)
InsertDesc(x, s, k) ==
    IF s = <<>> THEN <<x>>
    ELSE IF Get(Head(s)[3], k, 0) >= Get(x[3], k, 0)
         THEN <<Head(s)>> \o InsertDesc(x, Tail(s), k)
         ELSE <<x>> \o s

RECURSIVE SortDesc(_, _)
SortDesc(s, k) ==
    IF s = <<>> THEN <<>>
    ELSE InsertDesc(s[Len(s)], SortDesc(SubSeq(s, 1, Len(s) - 1), k), k)

----------------------------------------------------------------------------
\* VideoInfoThread.run: the processing of one probe result.

\* f" (~{filesize // (1024*1024)}MB)" if filesize else ""
SizeStr(fmt) ==
    IF Truthy(Get(fmt, "filesize", 0))
    THEN " (~" \o ToString(fmt["filesize"] \div MiB) \o "MB)"
    ELSE ""

\* The first test with "or" in place of "and".
IsVideoBranch_Or(fmt) ==
    Get(fmt, "vcodec", "None") # "none" \/ Get(fmt, "acodec", "None") # "none"

\* A first test that wants both codec keys to be there.
IsVideoBranch_KeysThere(fmt) ==
    /\ "vcodec" \in DOMAIN fmt /\ fmt["vcodec"] # "none"
    /\ "acodec" \in DOMAIN fmt /\ fmt["acodec"] # "none"

\* The first test of the loop body.
IsVideoBranch(fmt) ==
    Get(fmt, "vcodec", "None") # "none" /\ Get(fmt, "acodec", "None") # "none"

\* The elif test of the loop body.
IsAudioBranch(fmt) ==
    Get(fmt, "acodec", "None") # "none" /\ Get(fmt, "vcodec", "None") = "none"

\* A video label that shows a frame rate of 30 too.
VideoQualityStr_From30(fmt) ==
    LET height == Get(fmt, "height", 0)
        fps == Get(fmt, "fps", 0)
        ext == Get(fmt, "ext", "unknown")
    IN  ToString(height) \o "p"
          \o (IF Truthy(fps) /\ fps >= 30 THEN ToString(fps) ELSE "")
          \o " (" \o ext \o ")" \o SizeStr(fmt)

VideoQualityStr(fmt) ==
    LET height == Get(fmt, "height", 0)
        fps == Get(fmt, "fps", 0)
        ext == Get(fmt, "ext", "unknown")
    IN  ToString(height) \o "p"
          \o (IF Truthy(fps) /\ fps > 30 THEN ToString(fps) ELSE "")
          \o " (" \o ext \o ")" \o SizeStr(fmt)

\* int(abr) drops the fraction; abr is in tenths.
AudioQualityStr(fmt) ==
    LET abr == Get(fmt, "abr", 0)
        ext == Get(fmt, "ext", "unknown")
    IN  ToString(abr \div 10) \o "kbps (" \o ext \o ")" \o SizeStr(fmt)

\* What one pass of the loop body appends to video_formats.
VideoEntry(fmt) ==
    IF IsVideoBranch(fmt) /\ Truthy(Get(fmt, "height", 0))
    THEN <<  <<VideoQualityStr(fmt), fmt["format_id"], fmt>>  >>
    ELSE <<>>

\* The audio branch without its "if abr".
AudioEntry_NoTest(fmt) ==
    IF ~IsVideoBranch(fmt) /\ IsAudioBranch(fmt)
    THEN <<  <<AudioQualityStr(fmt), fmt["format_id"], fmt>>  >>
    ELSE <<>>

\* What one pass of the loop body appends to audio_formats.
AudioEntry(fmt) ==
    IF ~IsVideoBranch(fmt) /\ IsAudioBranch(fmt) /\ Truthy(Get(fmt, "abr", 0))
    THEN <<  <<AudioQualityStr(fmt), fmt["format_id"], fmt>>  >>
    ELSE <<>>

RECURSIVE CollectVideo(_)
CollectVideo(formats) ==
    IF formats = <<>> THEN <<>>
    ELSE VideoEntry(Head(formats)) \o CollectVideo(Tail(formats))

RECURSIVE CollectAudio(_)
CollectAudio(formats) ==
    IF formats = <<>> THEN <<>>
    ELSE AudioEntry(Head(formats)) \o CollectAudio(Tail(formats))

\* A label whose seconds are not padded.
DurationStr_NoPad(info) ==
    LET duration == Get(info, "duration", 0)
    IN  IF Truthy(duration)
        THEN ToString(duration \div 60) \o ":" \o ToString(duration % 60)
        ELSE "Unknown"

\* duration in seconds; 0 and absent give "Unknown".
DurationStr(info) ==
    LET duration == Get(info, "duration", 0)
        s == duration % 60
    IN  IF Truthy(duration)
        THEN ToString(duration \div 60) \o ":"
               \o (IF s < 10 THEN "0" ELSE "") \o ToString(s)
        ELSE "Unknown"

\* The dict that run() emits with finished.
ProcessInfo(info) ==
    LET formats == Get(info, "formats", <<>>)
    IN  [title |-> Get(info, "title", "Unknown Title"),
         duration |-> DurationStr(info),
         video_formats |-> SortDesc(CollectVideo(formats), "height"),
         audio_formats |-> SortDesc(CollectAudio(formats), "abr")]

----------------------------------------------------------------------------
\* Signals and the two run() methods.

Signal(sender, signal, arg) == [sender |-> sender, signal |-> signal, arg |-> arg]

\* What the collaborator's extract_info can do.
ProbeNone == [kind |-> "return", info |-> [none |-> TRUE]]
ProbeRaise(msg) == [kind |-> "raise", message |-> msg]
ProbeInfo(info) == [kind |-> "return", info |-> info]

\* "info is None"
IsNone(info) == "none" \in DOMAIN info

\* run without the return after the first error.emit: info.get then raises.
VideoInfoThread_run_NoReturn(probe) ==
    IF probe.kind = "raise"
    THEN << Signal("VideoInfoThread", "error",
                   "Error fetching video info: " \o probe.message) >>
    ELSE IF IsNone(probe.info)
    THEN << Signal("VideoInfoThread", "error",
                   "Failed to extract video information"),
            Signal("VideoInfoThread", "error",
                   "Error fetching video info: 'NoneType' object has no attribute 'get'") >>
    ELSE << Signal("VideoInfoThread", "finished", ProcessInfo(probe.info)) >>

\* VideoInfoThread.run: the signals it emits, in order, for one probe outcome.
VideoInfoThread_run(probe) ==
    IF probe.kind = "raise"
    THEN << Signal("VideoInfoThread", "error",
                   "Error fetching video info: " \o probe.message) >>
    ELSE IF IsNone(probe.info)
    THEN << Signal("VideoInfoThread", "error",
                   "Failed to extract video information") >>
    ELSE << Signal("VideoInfoThread", "finished", ProcessInfo(probe.info)) >>

\* DownloadThread.progress_hook: the signals it emits for one callback d.
progress_hook(d) ==
    IF d["status"] = "downloading"
    THEN << Signal("DownloadThread", "progress",
                   "Downloading... " \o Get(d, "_percent_str", "N/A")
                     \o " at " \o Get(d, "_speed_str", "N/A")) >>
    ELSE IF d["status"] = "finished"
    THEN << Signal("DownloadThread", "progress",
                   "Download finished: " \o d["filename"][Len(d["filename"])]) >>
    ELSE <<>>

\* run with finished.emit behind the try statement.
DownloadThread_run_Both(outcome) ==
    IF outcome.kind = "return"
    THEN << Signal("DownloadThread", "finished", "Download completed successfully!") >>
    ELSE << Signal("DownloadThread", "error", "Download failed: " \o outcome.message),
            Signal("DownloadThread", "finished", "Download completed successfully!") >>

\* run emitting a progress message behind its terminal signal.
DownloadThread_run_LateProgress(outcome) ==
    (IF outcome.kind = "return"
     THEN << Signal("DownloadThread", "finished", "Download completed successfully!") >>
     ELSE << Signal("DownloadThread", "error", "Download failed: " \o outcome.message) >>)
    \o << Signal("DownloadThread", "progress", "Download finished") >>

\* DownloadThread.run after ydl.download: the signals it emits for one outcome
\* of the call.
DownloadThread_run(outcome) ==
    IF outcome.kind = "return"
    THEN << Signal("DownloadThread", "finished", "Download completed successfully!") >>
    ELSE << Signal("DownloadThread", "error", "Download failed: " \o outcome.message) >>

----------------------------------------------------------------------------
\* The window's helpers.

RECURSIVE StripLeft(_)
StripLeft(s) ==
    IF s # <<>> /\ Head(s) = " " THEN StripLeft(Tail(s)) ELSE s

RECURSIVE StripRight(_)
StripRight(s) ==
    IF s # <<>> /\ s[Len(s)] = " " THEN StripRight(SubSeq(s, 1, Len(s) - 1)) ELSE s

\* str.strip() on a text given as tokens; " " is a run of white space.
Strip(s) == StripRight(StripLeft(s))

RECURSIVE Join(_)
Join(s) == IF s = <<>> THEN "" ELSE Head(s) \o Join(Tail(s))

\* The tokens the four patterns of validate_url are made of.
Schemes == {"http://", "https://"}
Hosts == {"youtube.com/watch?v=", "youtu.be/", "youtube.com/embed/", "youtube.com/v/"}
IdTokens == {"dQw4w9WgXcQ", "jNQXAC9IVRw"}

\* validate_url: re.match anchors at the start only; the scheme is required,
\* "www." is optional, and the id is one or more of [\w-].
validate_url(url) ==
    /\ Len(url) >= 1
    /\ url[1] \in Schemes
    /\ LET rest == IF Len(url) >= 2 /\ url[2] = "www." THEN SubSeq(url, 3, Len(url))
                   ELSE Tail(url)
       IN  /\ Len(rest) >= 2
           /\ rest[1] \in Hosts
           /\ rest[2] \in IdTokens

\* QListWidget.clear()
ClearedList == [items |-> <<>>, row |-> -1]

RECURSIVE Labels(_)
Labels(formats) ==
    IF formats = <<>> THEN <<>> ELSE <<Head(formats)[1]>> \o Labels(Tail(formats))

\* addItem for each entry of formats, then setCurrentRow(0) if count() > 0.
Populate(list, formats) ==
    LET items == list.items \o Labels(formats)
    IN  [items |-> items, row |-> IF Len(items) > 0 THEN 0 ELSE list.row]

SeqCount(s, P(_)) == Cardinality({i \in 1..Len(s) : P(s[i])})

IsResolveThread(t) == t.kind = "VideoInfoThread"
IsDownloadThread(t) == t.kind = "DownloadThread"
IsResolveSignal(e) == e.sender = "VideoInfoThread"
IsDownloadTerminal(e) == e.sender = "DownloadThread" /\ e.signal \in {"finished", "error"}

\* Resolves and downloads in flight: started, and the outcome not yet handled
\* by its slot.  A thread leaves threads with its last emit.
ResolvesInFlight == SeqCount(threads, IsResolveThread) + SeqCount(events, IsResolveSignal)
DownloadsInFlight == SeqCount(threads, IsDownloadThread) + SeqCount(events, IsDownloadTerminal)

\* The observation of one step: the operation, how it ended, the message
\* boxes it showed, its input, and what was in flight when it began.
Obs(op, result, dialogs, input) ==
    [op |-> op, result |-> result, dialogs |-> dialogs, input |-> input,
     resolving |-> ResolvesInFlight, downloading |-> DownloadsInFlight]

Box(kind, title, text) == [kind |-> kind, title |-> title, text |-> text]

\* The observation of a step that only changes what the next request reads.
Input == Obs("input", "done", <<>>, <<>>)

----------------------------------------------------------------------------
\* The inputs: what the user can type and pick, and what the collaborator
\* can answer.

UrlEmpty == <<>>
UrlBlank == <<" ">>
UrlNoScheme == <<"www.", "youtube.com/watch?v=", "jNQXAC9IVRw">>
UrlWatch == <<" ", "https://", "www.", "youtube.com/watch?v=", "dQw4w9WgXcQ">>
UrlShort == <<"https://", "youtu.be/", "jNQXAC9IVRw", "?t=1">>

Urls == {UrlEmpty, UrlBlank, UrlNoScheme, UrlWatch, UrlShort}

\* The texts the user of the session runs puts into the URL field.
TypedUrls == {UrlEmpty, UrlBlank, UrlNoScheme, UrlWatch}

\* str(Path.home() / "Downloads")
HomeDownloads == <<"/home/user/Downloads">>
\* A directory whose name ends in white space.
UsbDir == <<"/mnt/usb/rips", " ">>

Paths == {HomeDownloads, UsbDir}

F18 == [format_id |-> "18", vcodec |-> "avc1.42001E", acodec |-> "mp4a.40.2",
        height |-> 360, fps |-> 30, ext |-> "mp4", filesize |-> 5 * MiB + 7]
F22 == [format_id |-> "22", vcodec |-> "avc1.64001F", acodec |-> "mp4a.40.2",
        height |-> 720, fps |-> 60, ext |-> "mp4"]
F43 == [format_id |-> "43", vcodec |-> "vp8.0", acodec |-> "vorbis",
        height |-> 360, ext |-> "webm", filesize |-> 0]
F139 == [format_id |-> "139", vcodec |-> "none", acodec |-> "mp4a.40.5",
         abr |-> 489, ext |-> "m4a"]
F140 == [format_id |-> "140", vcodec |-> "none", acodec |-> "mp4a.40.2",
         abr |-> 1295, ext |-> "m4a", filesize |-> 3 * MiB]
\* Image track only.
F137 == [format_id |-> "137", vcodec |-> "avc1.640028", acodec |-> "none",
         height |-> 1080, fps |-> 30, ext |-> "mp4"]
\* Both tracks, height 0.
F91 == [format_id |-> "91", vcodec |-> "avc1.42c00b", acodec |-> "mp4a.40.5",
        height |-> 0, abr |-> 480, ext |-> "mp4"]
\* Sound track only, bitrate 0.
F600 == [format_id |-> "600", vcodec |-> "none", acodec |-> "opus", abr |-> 0,
         ext |-> "webm"]
\* Sound track only, no bitrate.
F249 == [format_id |-> "249", vcodec |-> "none", acodec |-> "opus", ext |-> "webm"]
\* No vcodec key.
F233 == [format_id |-> "233", acodec |-> "mp4a.40.2", abr |-> 1280, ext |-> "mp4"]
\* Neither codec key.
F5 == [format_id |-> "5", height |-> 240, ext |-> "flv"]
\* No acodec key, no image track.
F171 == [format_id |-> "171", vcodec |-> "none", abr |-> 1280, ext |-> "webm"]

Descriptors == {F18, F22, F43, F139, F140, F137, F91, F600, F249, F233, F5, F171}

RECURSIVE SeqsUpTo(_, _)
SeqsUpTo(S, n) ==
    IF n = 0 THEN {<<>>}
    ELSE LET shorter == SeqsUpTo(S, n - 1)
         IN  shorter \cup {Append(s, x) : s \in {t \in shorter : Len(t) = n - 1}, x \in S}

\* The probe results of the session runs.
InfoFull == [title |-> "Me at the zoo", duration |-> 125, formats |-> <<F18, F22, F140>>]
InfoAudio == [title |-> "Podcast", duration |-> 0, formats |-> <<F139, F140>>]
InfoBare == [id |-> "jNQXAC9IVRw"]

SessionProbes ==
    {ProbeInfo(InfoFull), ProbeInfo(InfoAudio), ProbeInfo(InfoBare), ProbeNone,
     ProbeRaise("HTTP Error 429: Too Many Requests")}

\* info['duration'], in seconds.
Durations == {0, 5, 59, 60, 125, 600, 3725}

\* Every probe outcome with at most MaxFormats descriptors.
AllProbes ==
    {ProbeInfo([title |-> "Me at the zoo", duration |-> 19, formats |-> f]) :
        f \in SeqsUpTo(Descriptors, MaxFormats)}
    \cup {ProbeInfo([title |-> "Podcast", duration |-> d, formats |-> <<>>]) :
             d \in Durations}
    \cup {ProbeInfo(InfoBare), ProbeNone, ProbeRaise("HTTP Error 429: Too Many Requests")}

HookCalls ==
    {[status |-> "downloading", _percent_str |-> " 42.0%", _speed_str |-> "1.00MiB/s"],
     [status |-> "finished", filename |-> <<"/home/user/Downloads", "/", "Me at the zoo.f22.mp4">>],
     [status |-> "error"]}

DownloadOutcomes ==
    {[kind |-> "return"], [kind |-> "raise", message |-> "HTTP Error 403: Forbidden"]}

----------------------------------------------------------------------------
\* The state after YouTubeDownloader.__init__.

setup_yt_dlp ==
    [no_warnings |-> FALSE, extract_flat |-> FALSE, writesubtitles |-> FALSE,
     writeautomaticsub |-> FALSE, ignoreerrors |-> TRUE,
     ssl_context |-> "ssl_context", quiet |-> TRUE]

\* The state after __init__, all but the text of the URL field.
InitWindow ==
    /\ save_entry = HomeDownloads
    /\ radio_video = TRUE
    /\ video_list = ClearedList
    /\ audio_list = ClearedList
    /\ video_formats = <<>>
    /\ audio_formats = <<>>
    /\ fetch_btn = TRUE
    /\ download_btn = TRUE
    /\ status_label = "Ready"
    /\ progress_label = ""
    /\ ydl_opts_base = setup_yt_dlp
    /\ threads = <<>>
    /\ events = <<>>
    /\ dirs \in {{Strip(HomeDownloads), UsbDir}, {UsbDir}}
    /\ resolved = [status |-> "never", info |-> <<>>, prior |-> FALSE, url |-> <<>>,
                   audio_only |-> FALSE]
    /\ last = Obs("__init__", "done", <<>>, <<>>)

Init ==
    /\ url_entry = UrlEmpty
    /\ InitWindow

\* The state once the user has typed a URL.
InitResolver ==
    /\ url_entry \in Urls
    /\ InitWindow

----------------------------------------------------------------------------
\* What the user and the environment do between handlers.

EditUrl ==
    \E u \in TypedUrls :
        /\ u # url_entry
        /\ url_entry' = u
        /\ last' = Input
        /\ UNCHANGED <<resolved, save_entry, radio_video, dirs>>
        /\ UNCHANGED session

SelectType ==
    /\ radio_video' = ~radio_video
    /\ last' = Input
    /\ UNCHANGED <<resolved, url_entry, save_entry, dirs>>
    /\ UNCHANGED session

SelectVideoRow ==
    \E r \in 0..(Len(video_list.items) - 1) :
        /\ r # video_list.row
        /\ video_list' = [video_list EXCEPT !.row = r]
        /\ last' = Input
        /\ UNCHANGED <<resolved, url_entry, save_entry, radio_video, dirs, audio_list,
                       video_formats, audio_formats, fetch_btn, download_btn,
                       status_label, progress_label, ydl_opts_base, threads, events>>

SelectAudioRow ==
    \E r \in 0..(Len(audio_list.items) - 1) :
        /\ r # audio_list.row
        /\ audio_list' = [audio_list EXCEPT !.row = r]
        /\ last' = Input
        /\ UNCHANGED <<resolved, url_entry, save_entry, radio_video, dirs, video_list,
                       video_formats, audio_formats, fetch_btn, download_btn,
                       status_label, progress_label, ydl_opts_base, threads, events>>

\* getExistingDirectory gives a directory that exists, or "" when cancelled.
browse_folder ==
    \E folder \in dirs \cup {<<>>} :
        /\ save_entry' = IF folder # <<>> THEN folder ELSE save_entry
        /\ last' = Input
        /\ UNCHANGED <<resolved, url_entry, radio_video, dirs>>
        /\ UNCHANGED session

----------------------------------------------------------------------------
\* fetch_btn.clicked -> fetch_video_info

\* A disabled QPushButton emits no clicked signal.
FetchIgnored ==
    /\ ~fetch_btn
    /\ last' = Obs("fetch_btn.click", "ignored", <<>>, url_entry)
    /\ UNCHANGED <<resolved, url_entry, save_entry, radio_video, dirs>>
    /\ UNCHANGED session

\* The two early returns of fetch_video_info.
FetchRejected ==
    LET url == Strip(url_entry)
    IN  /\ fetch_btn
        /\ url = <<>> \/ ~validate_url(url)
        /\ last' = Obs("fetch_video_info", "rejected",
                       << Box("warning", "Error",
                              IF url = <<>> THEN "Please enter a YouTube URL"
                              ELSE "Please enter a valid YouTube URL") >>,
                       url_entry)
        /\ UNCHANGED <<resolved, url_entry, save_entry, radio_video, dirs>>
        /\ UNCHANGED session

\* fetch_video_info without the four clear() calls.
FetchClear_Nothing ==
    UNCHANGED <<video_list, audio_list, video_formats, audio_formats>>

\* fetch_video_info clearing the two widgets only.
FetchClear_WidgetsOnly ==
    /\ video_list' = ClearedList
    /\ audio_list' = ClearedList
    /\ UNCHANGED <<video_formats, audio_formats>>

\* fetch_video_info clearing the video side only.
FetchClear_VideoOnly ==
    /\ video_list' = ClearedList
    /\ video_formats' = <<>>
    /\ UNCHANGED <<audio_list, audio_formats>>

\* fetch_video_info clearing the two attributes only.
FetchClear_FormatsOnly ==
    /\ video_formats' = <<>>
    /\ audio_formats' = <<>>
    /\ UNCHANGED <<video_list, audio_list>>

\* "Clear previous formats"
FetchClear ==
    /\ video_list' = ClearedList
    /\ audio_list' = ClearedList
    /\ video_formats' = <<>>
    /\ audio_formats' = <<>>

\* fetch_video_info leaving the button enabled.
FetchButton_Stays == UNCHANGED fetch_btn

\* The button fetch_video_info disables.
FetchButton == fetch_btn' = FALSE

FetchAccepted ==
    LET url == Strip(url_entry)
    IN  /\ fetch_btn
        /\ url # <<>>
        /\ validate_url(url)
        /\ FetchButton
        /\ status_label' = "Fetching video information..."
        /\ progress_label' = "Working..."
        /\ FetchClear
        /\ threads' = Append(threads, [kind |-> "VideoInfoThread", url |-> url,
                                       ydl_opts |-> ydl_opts_base])
        /\ resolved' = [status |-> "resolving", info |-> <<>>,
                        prior |-> video_formats # <<>> \/ audio_formats # <<>>,
                        url |-> url, audio_only |-> FALSE]
        /\ last' = Obs("fetch_video_info", "started", <<>>, url_entry)
        /\ UNCHANGED <<url_entry, save_entry, radio_video, dirs, download_btn,
                       ydl_opts_base, events>>

fetch_video_info == FetchRejected \/ FetchAccepted

----------------------------------------------------------------------------
\* The VideoInfoThread and its two slots.

RemoveAt(s, i) == SubSeq(s, 1, i - 1) \o SubSeq(s, i + 1, Len(s))

VideoInfoRun(probes) ==
    \E i \in 1..Len(threads), probe \in probes :
        /\ threads[i].kind = "VideoInfoThread"
        /\ events' = events \o VideoInfoThread_run(probe)
        /\ threads' = RemoveAt(threads, i)
        /\ last' = Obs("VideoInfoThread.run", VideoInfoThread_run(probe), <<>>, probe)
        /\ UNCHANGED <<resolved, url_entry, save_entry, radio_video, dirs, video_list,
                       audio_list, video_formats, audio_formats, fetch_btn,
                       download_btn, status_label, progress_label, ydl_opts_base>>

on_video_info_received ==
    /\ events # <<>>
    /\ Head(events).sender = "VideoInfoThread"
    /\ Head(events).signal = "finished"
    /\ LET info == Head(events).arg
       IN  /\ fetch_btn' = TRUE
           /\ status_label' = "Video info fetched"
           /\ progress_label' = "Ready"
           /\ video_formats' = info.video_formats
           /\ audio_formats' = info.audio_formats
           /\ video_list' = Populate(video_list, info.video_formats)
           /\ audio_list' = Populate(audio_list, info.audio_formats)
           /\ download_btn' = TRUE
           /\ resolved' = [status |-> "ok", info |-> info, prior |-> FALSE,
                           url |-> resolved.url, audio_only |-> FALSE]
           /\ last' = Obs("on_video_info_received", "done", <<>>, info)
    /\ events' = Tail(events)
    /\ UNCHANGED <<url_entry, save_entry, radio_video, dirs, ydl_opts_base, threads>>

on_video_info_error ==
    /\ events # <<>>
    /\ Head(events).sender = "VideoInfoThread"
    /\ Head(events).signal = "error"
    /\ LET error_msg == Head(events).arg
       IN  /\ fetch_btn' = TRUE
           /\ status_label' = "Error"
           /\ progress_label' = ""
           /\ resolved' = [resolved EXCEPT !.status = "error", !.url = <<>>]
           /\ last' = Obs("on_video_info_error", "done",
                          << Box("critical", "Error", error_msg) >>, error_msg)
    /\ events' = Tail(events)
    /\ UNCHANGED <<url_entry, save_entry, radio_video, dirs, video_list,
                   audio_list, video_formats, audio_formats, download_btn,
                   ydl_opts_base, threads>>

----------------------------------------------------------------------------
\* download_btn.clicked -> start_download

\* A disabled QPushButton emits no clicked signal.
DownloadIgnored ==
    /\ ~download_btn
    /\ last' = Obs("download_btn.click", "ignored", <<>>, url_entry)
    /\ UNCHANGED <<resolved, url_entry, save_entry, radio_video, dirs>>
    /\ UNCHANGED session

\* start_download without the os.path.exists test.
DownloadWarning_NoPathCheck ==
    LET url == Strip(url_entry)
        save_path == Strip(save_entry)
    IN  IF url = <<>> THEN "Please enter a YouTube URL"
        ELSE IF save_path = <<>> THEN "Please select a valid save location"
        ELSE IF radio_video /\ video_list.row < 0 THEN "Please select a video quality"
        ELSE IF audio_list.row < 0 THEN "Please select an audio quality"
        ELSE ""

\* The text of the warning start_download returns with, "" when it has none.
DownloadWarning ==
    LET url == Strip(url_entry)
        save_path == Strip(save_entry)
    IN  IF url = <<>> THEN "Please enter a YouTube URL"
        ELSE IF save_path = <<>> \/ save_path \notin dirs
        THEN "Please select a valid save location"
        ELSE IF radio_video /\ video_list.row < 0 THEN "Please select a video quality"
        ELSE IF audio_list.row < 0 THEN "Please select an audio quality"
        ELSE ""

DownloadRejected ==
    /\ download_btn
    /\ DownloadWarning # ""
    /\ last' = Obs("start_download", "rejected",
                   << Box("warning", "Error", DownloadWarning) >>, url_entry)
    /\ UNCHANGED <<resolved, url_entry, save_entry, radio_video, dirs>>
    /\ UNCHANGED session

\* Options whose format expression has no "/best" alternative.
DownloadOpts_NoBest ==
    LET opts == SetItem(ydl_opts_base, "outtmpl",
                        Join(Strip(save_entry)) \o "/" \o "%(title)s.%(ext)s")
    IN  IF radio_video
        THEN SetItem(SetItem(opts, "format",
                             video_formats[video_list.row + 1][2] \o "+"
                               \o audio_formats[audio_list.row + 1][2]),
                     "merge_output_format", "mp4")
        ELSE SetItem(SetItem(opts, "format", audio_formats[audio_list.row + 1][2]),
                     "postprocessors",
                     << [key |-> "FFmpegExtractAudio", preferredcodec |-> "mp3",
                         preferredquality |-> "192"] >>)

\* "Prepare download options"
DownloadOpts ==
    LET save_path == Strip(save_entry)
        opts == SetItem(ydl_opts_base, "outtmpl",
                        Join(save_path) \o "/" \o "%(title)s.%(ext)s")
    IN  IF radio_video
        THEN SetItem(SetItem(opts, "format",
                             video_formats[video_list.row + 1][2] \o "+"
                               \o audio_formats[audio_list.row + 1][2] \o "/best"),
                     "merge_output_format", "mp4")
        ELSE SetItem(SetItem(opts, "format", audio_formats[audio_list.row + 1][2]),
                     "postprocessors",
                     << [key |-> "FFmpegExtractAudio", preferredcodec |-> "mp3",
                         preferredquality |-> "192"] >>)

\* The list lookups of "Prepare download options" are in range.
RowsInRange ==
    /\ radio_video => video_list.row + 1 \in 1..Len(video_formats)
    /\ audio_list.row + 1 \in 1..Len(audio_formats)

\* start_download disabling the download button only.
DownloadButtons_KeepFetch ==
    /\ download_btn' = FALSE
    /\ UNCHANGED fetch_btn

\* start_download disabling the fetch button only.
DownloadButtons_KeepDownload ==
    /\ fetch_btn' = FALSE
    /\ UNCHANGED download_btn

\* The buttons start_download disables.
DownloadButtons ==
    /\ download_btn' = FALSE
    /\ fetch_btn' = FALSE

\* start_download writing its options into ydl_opts_base itself.
DownloadBase_Shared == ydl_opts_base' = DownloadOpts

\* ydl_opts = self.ydl_opts_base.copy(): the writes go to the copy.
DownloadBase == UNCHANGED ydl_opts_base

DownloadAccepted ==
    /\ download_btn
    /\ DownloadWarning = ""
    /\ IF RowsInRange
       THEN /\ DownloadButtons
            /\ status_label' = "Downloading..."
            /\ progress_label' = "Starting download..."
            /\ threads' = Append(threads,
                                 [kind |-> "DownloadThread", url |-> Strip(url_entry),
                                  save_path |-> Strip(save_entry),
                                  ydl_opts |-> DownloadOpts, pc |-> "start",
                                  hooked |-> 0])
            /\ DownloadBase
            /\ resolved' = [resolved EXCEPT !.audio_only = @ \/ ~radio_video]
            /\ last' = Obs("start_download", "started", <<>>, url_entry)
       ELSE \* IndexError leaves the slot before anything is written
            /\ last' = Obs("start_download", "IndexError", <<>>, url_entry)
            /\ UNCHANGED <<download_btn, fetch_btn, status_label, progress_label,
                           threads, ydl_opts_base, resolved>>
    /\ UNCHANGED <<url_entry, save_entry, radio_video, dirs, video_list,
                   audio_list, video_formats, audio_formats, events>>

start_download == DownloadRejected \/ DownloadAccepted

----------------------------------------------------------------------------
\* The DownloadThread and its three slots.

ThreadFrame ==
    UNCHANGED <<resolved, url_entry, save_entry, radio_video, dirs, video_list, audio_list,
                video_formats, audio_formats, fetch_btn, download_btn,
                status_label, progress_label, ydl_opts_base>>

\* run: self.ydl_opts['progress_hooks'] = [self.progress_hook]
DownloadThreadHooks ==
    \E i \in 1..Len(threads) :
        /\ threads[i].kind = "DownloadThread"
        /\ threads[i].pc = "start"
        /\ threads' = [threads EXCEPT ![i] =
                          [@ EXCEPT !.pc = "download",
                                    !.ydl_opts = SetItem(@, "progress_hooks",
                                                         <<"progress_hook">>)]]
        /\ last' = Obs("DownloadThread.run:hooks", <<>>, <<>>, "progress_hooks")
        /\ UNCHANGED events
        /\ ThreadFrame

\* ydl.download calls the progress hook.
DownloadThreadProgress ==
    \E i \in 1..Len(threads), d \in HookCalls :
        /\ threads[i].kind = "DownloadThread"
        /\ threads[i].pc = "download"
        /\ threads[i].hooked < MaxProgress
        /\ threads' = [threads EXCEPT ![i].hooked = @ + 1]
        /\ events' = events \o progress_hook(d)
        /\ last' = Obs("DownloadThread.progress_hook", progress_hook(d), <<>>, d)
        /\ ThreadFrame

\* ydl.download returns or raises, and run ends.
DownloadThreadEnd ==
    \E i \in 1..Len(threads), outcome \in DownloadOutcomes :
        /\ threads[i].kind = "DownloadThread"
        /\ threads[i].pc = "download"
        /\ threads' = RemoveAt(threads, i)
        /\ events' = events \o DownloadThread_run(outcome)
        /\ last' = Obs("DownloadThread.run", DownloadThread_run(outcome), <<>>, outcome)
        /\ ThreadFrame

SlotFrame ==
    UNCHANGED <<resolved, url_entry, save_entry, radio_video, dirs, video_list, audio_list,
                video_formats, audio_formats, ydl_opts_base, threads>>

on_download_progress ==
    /\ events # <<>>
    /\ Head(events).sender = "DownloadThread"
    /\ Head(events).signal = "progress"
    /\ progress_label' = Head(events).arg
    /\ last' = Obs("on_download_progress", "done", <<>>, Head(events).arg)
    /\ events' = Tail(events)
    /\ UNCHANGED <<fetch_btn, download_btn, status_label>>
    /\ SlotFrame

\* The terminal slots enabling the fetch button only.
DownloadEndButtons_FetchOnly ==
    /\ fetch_btn' = TRUE
    /\ UNCHANGED download_btn

\* The terminal slots enabling the download button only.
DownloadEndButtons_DownloadOnly ==
    /\ download_btn' = TRUE
    /\ UNCHANGED fetch_btn

\* The buttons the two terminal slots enable.
DownloadEndButtons ==
    /\ download_btn' = TRUE
    /\ fetch_btn' = TRUE

on_download_finished ==
    /\ events # <<>>
    /\ Head(events).sender = "DownloadThread"
    /\ Head(events).signal = "finished"
    /\ DownloadEndButtons
    /\ status_label' = "Download completed"
    /\ progress_label' = "Done"
    /\ last' = Obs("on_download_finished", "done",
                   << Box("information", "Success", Head(events).arg) >>,
                   Head(events).arg)
    /\ events' = Tail(events)
    /\ SlotFrame

on_download_error ==
    /\ events # <<>>
    /\ Head(events).sender = "DownloadThread"
    /\ Head(events).signal = "error"
    /\ DownloadEndButtons
    /\ status_label' = "Download failed"
    /\ progress_label' = "Failed"
    /\ last' = Obs("on_download_error", "done",
                   << Box("critical", "Download Error", Head(events).arg) >>,
                   Head(events).arg)
    /\ events' = Tail(events)
    /\ SlotFrame

----------------------------------------------------------------------------
\* The session: the user, the two threads and the slots, in any order.

Next ==
    \/ EditUrl
    \/ SelectType
    \/ SelectVideoRow
    \/ SelectAudioRow
    \/ browse_folder
    \/ FetchIgnored
    \/ fetch_video_info
    \/ VideoInfoRun(SessionProbes)
    \/ on_video_info_received
    \/ on_video_info_error
    \/ DownloadIgnored
    \/ start_download
    \/ DownloadThreadHooks
    \/ DownloadThreadProgress
    \/ DownloadThreadEnd
    \/ on_download_progress
    \/ on_download_finished
    \/ on_download_error

Spec == Init /\ [][Next]_vars

\* The steps that need no user: a started thread runs on, extract_info and
\* download come back, and the event loop delivers the queued signal.
Background ==
    \/ VideoInfoRun(SessionProbes)
    \/ DownloadThreadHooks
    \/ DownloadThreadEnd
    \/ on_video_info_received
    \/ on_video_info_error
    \/ on_download_progress
    \/ on_download_finished
    \/ on_download_error

Fairness == WF_vars(Background)

SpecFair == Spec /\ Fairness

\* The resolver alone, over every probe outcome within the bounds.
NextResolver ==
    \/ FetchIgnored
    \/ fetch_video_info
    \/ VideoInfoRun(AllProbes)
    \/ on_video_info_received
    \/ on_video_info_error

SpecResolver == InitResolver /\ [][NextResolver]_vars

----------------------------------------------------------------------------
\* The claims.

FetchOps == {"fetch_btn.click", "fetch_video_info"}
DownloadOps == {"download_btn.click", "start_download"}

\* C1: in every reachable state, a resolve and a download are never in flight
\* at the same time.
C1_MutualExclusion == ~(ResolvesInFlight > 0 /\ DownloadsInFlight > 0)

\* A fetch was asked for while a download was in flight.
C1_Witness ==
    /\ DownloadsInFlight = 1
    /\ last.op = "fetch_btn.click"
    /\ last.downloading = 1

\* C2: a download is started only while no resolve is in flight and the
\* session holds the lists of a resolve that succeeded, non-empty for the
\* chosen mode: both for "Video + Audio", the audio list for "Audio Only".
C2_DownloadNeedsResolved ==
    (last.op = "start_download" /\ last.result = "started") =>
        /\ last.resolving = 0
        /\ resolved.status = "ok"
        /\ video_formats = resolved.info.video_formats
        /\ audio_formats = resolved.info.audio_formats
        /\ audio_formats # <<>>
        /\ radio_video => video_formats # <<>>

\* An audio-only download was started from a result without video formats.
C2_Witness ==
    /\ last.op = "start_download"
    /\ last.result = "started"
    /\ ~radio_video
    /\ video_formats = <<>>

\* C3: a download emits exactly one terminal signal, finished("Download
\* completed successfully!") when the download call returns and error when it
\* raises; and a download is outstanding exactly while its thread runs or its
\* one terminal signal waits for its slot.
C3_OneTerminalSignal ==
    /\ DownloadsInFlight = (IF download_btn THEN 0 ELSE 1)
    /\ last.op = "DownloadThread.run" =>
          /\ Len(last.result) = 1
          /\ last.input.kind = "return" =>
                last.result[1] = Signal("DownloadThread", "finished",
                                        "Download completed successfully!")
          /\ last.input.kind = "raise" =>
                /\ last.result[1].sender = "DownloadThread"
                /\ last.result[1].signal = "error"

\* The download call raised.
C3_Witness ==
    /\ last.op = "DownloadThread.run"
    /\ last.input.kind = "raise"
    /\ DownloadsInFlight = 1

IsVideoInfo(v) == DOMAIN v = {"title", "duration", "video_formats", "audio_formats"}

\* C4: a resolve delivers exactly one outcome: finished with a VideoInfo, or
\* error, "Failed to extract video information" when the probe returns
\* nothing and "Error fetching video info: ..." when it raises; and a resolve
\* is outstanding exactly while its thread runs or its one signal waits.
C4_OneResolveOutcome ==
    /\ ResolvesInFlight = (IF resolved.status = "resolving" THEN 1 ELSE 0)
    /\ last.op = "VideoInfoThread.run" =>
          /\ Len(last.result) = 1
          /\ last.result[1].sender = "VideoInfoThread"
          /\ IF last.input.kind = "raise"
             THEN /\ last.result[1].signal = "error"
                  /\ last.result[1].arg # "Failed to extract video information"
             ELSE IF IsNone(last.input.info)
             THEN /\ last.result[1].signal = "error"
                  /\ last.result[1].arg = "Failed to extract video information"
             ELSE /\ last.result[1].signal = "finished"
                  /\ IsVideoInfo(last.result[1].arg)

\* The probe returned nothing.
C4_Witness ==
    /\ last.op = "VideoInfoThread.run"
    /\ last.input.kind = "return"
    /\ IsNone(last.input.info)

\* A request for what is already in flight leaves the threads and the queue
\* as they are.
C5_Step ==
    ((ResolvesInFlight > 0 /\ last'.op \in FetchOps)
       \/ (DownloadsInFlight > 0 /\ last'.op \in DownloadOps))
    => UNCHANGED <<threads, events>>

\* C5: at most one resolve and at most one download are in flight, and a
\* fetch asked for during a resolve, or a download asked for during a
\* download, starts no thread and queues nothing.
C5_AtMostOne ==
    /\ [](ResolvesInFlight <= 1 /\ DownloadsInFlight <= 1)
    /\ [][C5_Step]_vars

\* A fetch was asked for while a resolve was in flight.
C5_Witness ==
    /\ ResolvesInFlight = 1
    /\ last.op = "fetch_btn.click"
    /\ last.resolving = 1

\* The held lists do not change from the start of a download to its slot.
C6_Step ==
    (DownloadsInFlight > 0 \/ DownloadsInFlight' > 0)
    => UNCHANGED <<video_formats, audio_formats>>

\* The session after a terminal slot of a download.
C6_State ==
    last.op \in {"on_download_finished", "on_download_error"} =>
        /\ ResolvesInFlight = 0
        /\ DownloadsInFlight = 0
        /\ fetch_btn
        /\ download_btn
        /\ resolved.status = "ok"
        /\ video_formats = resolved.info.video_formats
        /\ audio_formats = resolved.info.audio_formats
        /\ audio_list.row + 1 \in 1..Len(audio_formats)
        /\ video_formats # <<>> => video_list.row + 1 \in 1..Len(video_formats)

\* C6: the held format lists do not change from the start of a download to
\* the slot that ends it, and after that slot, for success and for failure,
\* nothing is in flight, both buttons are enabled, the lists are those of the
\* last successful resolve and the rows still select entries of them.
C6_ResolvedAfterDownload == []C6_State /\ [][C6_Step]_vars

\* A download that failed has been handled.
C6_Witness ==
    /\ last.op = "on_download_error"
    /\ video_formats # <<>>

\* The session after the slot of a resolve error.
C7_State ==
    last.op = "on_video_info_error" =>
        /\ video_formats = <<>>
        /\ audio_formats = <<>>
        /\ video_list = ClearedList
        /\ audio_list = ClearedList
        /\ ResolvesInFlight = 0
        /\ fetch_btn

\* After a resolve error a fetch request with a well-formed URL is accepted.
C7_Step ==
    (resolved.status = "error" /\ last'.op \in FetchOps
       /\ validate_url(Strip(url_entry)))
    => (last'.op = "fetch_video_info" /\ last'.result = "started")

\* C7: after the slot of a resolve error both held lists and both widgets are
\* empty, no resolve is in flight and the fetch button is enabled; and from
\* then on a fetch request with a well-formed URL is accepted.
C7_IdleAfterResolveError == []C7_State /\ [][C7_Step]_vars

\* A resolve failed in a session that held formats when it began.
C7_Witness ==
    /\ last.op = "on_video_info_error"
    /\ resolved.prior

\* What a handler does with a request that fails a validation.
C8_Step ==
    /\ (last'.op = "fetch_video_info"
          /\ (Strip(url_entry) = <<>> \/ ~validate_url(Strip(url_entry))))
       => last'.result = "rejected"
    /\ (last'.op = "start_download"
          /\ (\/ Strip(url_entry) = <<>>
              \/ Strip(save_entry) \notin dirs
              \/ audio_list.row < 0
              \/ (radio_video /\ video_list.row < 0)))
       => last'.result = "rejected"
    /\ last'.result = "rejected" =>
          /\ UNCHANGED <<session, url_entry, save_entry, radio_video, dirs, resolved>>
          /\ Len(last'.dialogs) = 1
          /\ last'.dialogs[1].kind = "warning"

\* C8: fetch_video_info with an empty or malformed URL, and start_download
\* with an empty URL, a directory that does not exist or a missing selection,
\* is rejected; a rejected request changes nothing, starts nothing and shows
\* exactly one warning.
C8_RejectedUnchanged == [][C8_Step]_vars

\* A download into a directory that does not exist was rejected.
C8_Witness ==
    /\ last.op = "start_download"
    /\ last.result = "rejected"
    /\ Strip(url_entry) # <<>>
    /\ Strip(save_entry) \notin dirs
    /\ audio_list.row >= 0

C9_State ==
    /\ (last.op \in DownloadOps /\ last.resolving > 0) =>
          /\ last.op = "start_download"
          /\ last.result = "rejected"
          /\ Len(last.dialogs) = 1
          /\ last.dialogs[1].kind = "warning"
    /\ (last.op \in DownloadOps /\ last.downloading > 0) =>
          /\ last.op = "download_btn.click"
          /\ last.result = "ignored"
          /\ last.dialogs = <<>>

\* A download request while something is in flight starts no thread.
C9_Step ==
    (last'.op \in DownloadOps /\ (ResolvesInFlight > 0 \/ DownloadsInFlight > 0))
    => UNCHANGED <<threads, events>>

TrackPresent(fmt, k) == k \in DOMAIN fmt /\ fmt[k] # "none"

HasVideoAndSound(fmt) == TrackPresent(fmt, "vcodec") /\ TrackPresent(fmt, "acodec")

HasSoundOnly(fmt) ==
    TrackPresent(fmt, "acodec") /\ "vcodec" \in DOMAIN fmt /\ fmt["vcodec"] = "none"

Positive(fmt, k) == k \in DOMAIN fmt /\ fmt[k] > 0

RECURSIVE Descs(_)
Descs(entries) ==
    IF entries = <<>> THEN <<>> ELSE <<Head(entries)[3]>> \o Descs(Tail(entries))

\* C10: in the result of every probe, a descriptor with both tracks and a
\* positive height is in video_formats as often as the probe gave it and not
\* in audio_formats; one with a sound track only and a positive bitrate is in
\* audio_formats as often as the probe gave it and not in video_formats; and
\* no descriptor is in both.
C10_Classified ==
    (last.op = "VideoInfoThread.run" /\ last.result[1].signal = "finished") =>
        LET formats == Get(last.input.info, "formats", <<>>)
            video == Descs(last.result[1].arg.video_formats)
            audio == Descs(last.result[1].arg.audio_formats)
        IN  /\ \A i \in 1..Len(formats) :
                 /\ (HasVideoAndSound(formats[i]) /\ Positive(formats[i], "height")) =>
                       /\ Count(formats[i], video) = Count(formats[i], formats)
                       /\ Count(formats[i], audio) = 0
                 /\ (HasSoundOnly(formats[i]) /\ Positive(formats[i], "abr")) =>
                       /\ Count(formats[i], audio) = Count(formats[i], formats)
                       /\ Count(formats[i], video) = 0
            /\ \A i \in 1..Len(video) : Count(video[i], audio) = 0

\* A probe gave the same video descriptor twice, and an audio descriptor.
C10_Witness ==
    /\ last.op = "VideoInfoThread.run"
    /\ last.result[1].signal = "finished"
    /\ Len(last.result[1].arg.video_formats) = 2
    /\ last.result[1].arg.video_formats[1] = last.result[1].arg.video_formats[2]
    /\ Len(last.result[1].arg.audio_formats) = 1

RECURSIVE WithKey(_, _, _)
WithKey(ds, k, v) ==
    IF ds = <<>> THEN <<>>
    ELSE (IF Get(Head(ds), k, 0) = v THEN <<Head(ds)>> ELSE <<>>)
           \o WithKey(Tail(ds), k, v)

RECURSIVE Among(_, _)
Among(ds, S) ==
    IF ds = <<>> THEN <<>>
    ELSE (IF Head(ds) \in S THEN <<Head(ds)>> ELSE <<>>) \o Among(Tail(ds), S)

Range(s) == {s[i] : i \in 1..Len(s)}

\* ds is in descending order of key k, and its entries with one key stand in
\* the order they have in formats.
RankedFrom(ds, formats, k) ==
    /\ \A i \in 1..(Len(ds) - 1) : Get(ds[i], k, 0) >= Get(ds[i + 1], k, 0)
    /\ \A d \in Range(ds) :
          WithKey(ds, k, Get(d, k, 0))
            = WithKey(Among(formats, Range(ds)), k, Get(d, k, 0))

\* C11: in every result of a resolve video_formats is in descending order of
\* height and audio_formats of bitrate, and entries with equal height or
\* equal bitrate keep the order they had in the probe's format list.
C11_RankedStable ==
    (last.op = "VideoInfoThread.run" /\ last.result[1].signal = "finished") =>
        LET formats == Get(last.input.info, "formats", <<>>)
        IN  /\ RankedFrom(Descs(last.result[1].arg.video_formats), formats, "height")
            /\ RankedFrom(Descs(last.result[1].arg.audio_formats), formats, "abr")

\* Two formats of equal height came before a higher one.
C11_Witness ==
    /\ last.op = "VideoInfoThread.run"
    /\ last.result[1].signal = "finished"
    /\ Get(last.input.info, "formats", <<>>) = <<F18, F43, F22>>
    /\ Descs(last.result[1].arg.video_formats) = <<F22, F18, F43>>

\* The original reading of the classification: a codec key that is not there
\* does not name a codec, so a listed video format has both keys naming a
\* codec and a listed audio format has an acodec naming one and vcodec "none".
C12_AbsentIsUnusable ==
    (last.op = "VideoInfoThread.run" /\ last.result[1].signal = "finished") =>
        LET formats == Get(last.input.info, "formats", <<>>)
            video == Descs(last.result[1].arg.video_formats)
            audio == Descs(last.result[1].arg.audio_formats)
        IN  \A d \in Range(formats) :
               /\ d \in Range(video) <=>
                     (HasVideoAndSound(d) /\ Positive(d, "height"))
               /\ d \in Range(audio) <=>
                     (HasSoundOnly(d) /\ Positive(d, "abr"))

\* The codec key is not there, or names a codec.
NotMarkedNone(fmt, k) == k \notin DOMAIN fmt \/ fmt[k] # "none"

FormatKind(fmt) ==
    IF NotMarkedNone(fmt, "vcodec") /\ NotMarkedNone(fmt, "acodec") THEN "Video"
    ELSE IF ~NotMarkedNone(fmt, "vcodec") /\ NotMarkedNone(fmt, "acodec")
         THEN "AudioOnly"
         ELSE "Unusable"

\* C12: a descriptor is Video iff neither codec indicator is "none",
\* AudioOnly iff the image-track indicator is "none" and the sound-track
\* indicator is not, and Unusable otherwise, where an indicator field that is
\* absent counts as not "none"; video_formats holds exactly the Video
\* descriptors with a non-zero height, audio_formats exactly the AudioOnly
\* descriptors with a non-zero bitrate, and an Unusable one is in neither.
C12_AbsentIsPresent ==
    (last.op = "VideoInfoThread.run" /\ last.result[1].signal = "finished") =>
        LET formats == Get(last.input.info, "formats", <<>>)
            video == Descs(last.result[1].arg.video_formats)
            audio == Descs(last.result[1].arg.audio_formats)
        IN  \A d \in Range(formats) :
               /\ d \in Range(video) <=>
                     (FormatKind(d) = "Video" /\ Positive(d, "height"))
               /\ d \in Range(audio) <=>
                     (FormatKind(d) = "AudioOnly" /\ Positive(d, "abr"))

\* A probe gave a descriptor without codec keys, one without an acodec key
\* and one whose acodec is "none": the first is listed as video, the second as
\* audio, the third in neither list.
C12_Witness ==
    /\ last.op = "VideoInfoThread.run"
    /\ last.result[1].signal = "finished"
    /\ Get(last.input.info, "formats", <<>>) = <<F5, F171, F137>>
    /\ Descs(last.result[1].arg.video_formats) = <<F5>>
    /\ Descs(last.result[1].arg.audio_formats) = <<F171>>

\* C13: the thread of an accepted download gets, with "Video + Audio" chosen,
\* the format "<v>+<a>/best" and merge_output_format "mp4", v and a being the
\* ids at the current rows of video_formats and audio_formats; with "Audio
\* Only" it gets the id at the current audio row as the format and the one
\* post-processor FFmpegExtractAudio, mp3, 192.
C13_Options ==
    (last.op = "start_download" /\ last.result = "started") =>
        LET opts == threads[Len(threads)].ydl_opts
            a == audio_formats[audio_list.row + 1][2]
        IN  IF radio_video
            THEN LET v == video_formats[video_list.row + 1][2]
                 IN  /\ opts["format"] = v \o "+" \o a \o "/best"
                     /\ (v = "22" /\ a = "140") => opts["format"] = "22+140/best"
                     /\ opts["merge_output_format"] = "mp4"
                     /\ "postprocessors" \notin DOMAIN opts
            ELSE /\ opts["format"] = a
                 /\ a = "140" => opts["format"] = "140"
                 /\ Len(opts["postprocessors"]) = 1
                 /\ opts["postprocessors"][1] =
                       [key |-> "FFmpegExtractAudio", preferredcodec |-> "mp3",
                        preferredquality |-> "192"]
                 /\ "merge_output_format" \notin DOMAIN opts

\* A download of video "22" with audio "140" was accepted.
C13_Witness ==
    /\ last.op = "start_download"
    /\ last.result = "started"
    /\ radio_video
    /\ threads[Len(threads)].ydl_opts["format"] = "22+140/best"

\* The two digits of a number below 100.
TwoDigits(n) == ToString(n \div 10) \o ToString(n % 10)

\* C14: the duration of every resolve result is "<d div 60>:<d mod 60 in two
\* digits>" for a duration d of the probe that is there and not 0 (125 gives
\* "2:05"), and "Unknown" for a duration that is 0 or not there.
C14_DurationLabel ==
    (last.op = "VideoInfoThread.run" /\ last.result[1].signal = "finished") =>
        LET info == last.input.info
            label == last.result[1].arg.duration
        IN  IF "duration" \in DOMAIN info /\ info["duration"] # 0
            THEN /\ \E mins \in 0..info["duration"], secs \in 0..59 :
                       /\ info["duration"] = 60 * mins + secs
                       /\ label = ToString(mins) \o ":" \o TwoDigits(secs)
                 /\ info["duration"] = 125 => label = "2:05"
            ELSE label = "Unknown"

\* A probe gave 125 seconds.
C14_Witness ==
    /\ last.op = "VideoInfoThread.run"
    /\ last.result[1].signal = "finished"
    /\ Get(last.input.info, "duration", 0) = 125
    /\ last.result[1].arg.duration = "2:05"

IsProgress(e) == e.sender = "DownloadThread" /\ e.signal = "progress"

\* C15: a progress message is queued and delivered only while its download is
\* in flight: no progress message stands behind a terminal signal in the
\* queue, one is queued only while one download is in flight, and the slot
\* on_download_progress runs only while one download is in flight, that is,
\* before the slot of that download's terminal signal.
C15_ProgressBeforeTerminal ==
    /\ \A i \in 1..Len(events), j \in 1..Len(events) :
          (i < j /\ IsDownloadTerminal(events[i])) => ~IsProgress(events[j])
    /\ SeqCount(events, IsProgress) > 0 => DownloadsInFlight = 1
    /\ last.op = "on_download_progress" => last.downloading = 1
    /\ (last.op \in {"on_download_finished", "on_download_error"}) =>
          SeqCount(events, IsProgress) = 0

\* A progress message was delivered after run had ended, its terminal signal
\* waiting behind it.
C15_Witness ==
    /\ last.op = "on_download_progress"
    /\ SeqCount(threads, IsDownloadThread) = 0
    /\ events # <<>>
    /\ IsDownloadTerminal(Head(events))

\* C16: given that extract_info and download come back, every resolve in
\* flight leads to one of its two slots with the fetch button enabled, every
\* download in flight leads to one of its two terminal slots with both buttons
\* enabled, and the fetch button is disabled only while something is in
\* flight, so that it is always enabled again.
C16_Completes ==
    /\ (ResolvesInFlight > 0) ~>
          (/\ last.op \in {"on_video_info_received", "on_video_info_error"}
           /\ ResolvesInFlight = 0
           /\ fetch_btn)
    /\ (DownloadsInFlight > 0) ~>
          (/\ last.op \in {"on_download_finished", "on_download_error"}
           /\ DownloadsInFlight = 0
           /\ fetch_btn /\ download_btn)
    /\ [](~fetch_btn => ResolvesInFlight + DownloadsInFlight > 0)

\* A download came to its finished slot, and both buttons are enabled.
C16_Witness ==
    /\ last.op = "on_download_finished"
    /\ DownloadsInFlight = 0
    /\ ResolvesInFlight = 0
    /\ fetch_btn
    /\ download_btn

\* C17: from the accepted fetch until the slot of its success the window
\* holds empty video_formats and audio_formats and empty lists, whatever it
\* held before; and the slot of the success leaves exactly the two lists of
\* the delivered result, in the attributes and as the labels of the widgets.
C17_ReplacedNotMerged ==
    /\ resolved.status = "resolving" =>
          /\ video_formats = <<>> /\ audio_formats = <<>>
          /\ video_list.items = <<>> /\ audio_list.items = <<>>
    /\ last.op = "on_video_info_received" =>
          /\ video_formats = last.input.video_formats
          /\ audio_formats = last.input.audio_formats
          /\ video_list.items = Labels(last.input.video_formats)
          /\ audio_list.items = Labels(last.input.audio_formats)

\* A fetch was accepted while the lists of an earlier resolve were held.
C17_Witness ==
    /\ last.op = "fetch_video_info"
    /\ last.result = "started"
    /\ resolved.status = "resolving"
    /\ resolved.prior

\* C18: in every resolve result each entry of video_formats has a height above
\* 0 and each entry of audio_formats a bitrate above 0; a descriptor whose
\* height is 0 or not there is not in video_formats, and one whose bitrate is
\* 0 or not there is not in audio_formats.
C18_PositiveKeys ==
    (last.op = "VideoInfoThread.run" /\ last.result[1].signal = "finished") =>
        LET formats == Get(last.input.info, "formats", <<>>)
            video == Descs(last.result[1].arg.video_formats)
            audio == Descs(last.result[1].arg.audio_formats)
        IN  /\ \A d \in Range(video) : "height" \in DOMAIN d /\ d["height"] > 0
            /\ \A d \in Range(audio) : "abr" \in DOMAIN d /\ d["abr"] > 0
            /\ \A d \in Range(formats) :
                  /\ ("height" \notin DOMAIN d \/ d["height"] = 0) => d \notin Range(video)
                  /\ ("abr" \notin DOMAIN d \/ d["abr"] = 0) => d \notin Range(audio)

\* A probe gave a descriptor of height 0, one of bitrate 0 and one of no
\* bitrate, and both lists of the result are empty.
C18_Witness ==
    /\ last.op = "VideoInfoThread.run"
    /\ last.result[1].signal = "finished"
    /\ Range(Get(last.input.info, "formats", <<>>)) = {F91, F600, F249}
    /\ last.result[1].arg.video_formats = <<>>
    /\ last.result[1].arg.audio_formats = <<>>

\* The parts of a label, read off the descriptor.
SizeSuffix(d) ==
    IF "filesize" \in DOMAIN d /\ d["filesize"] # 0
    THEN " (~" \o ToString(d["filesize"] \div 1048576) \o "MB)"
    ELSE ""

ExtPart(d) == " (" \o (IF "ext" \in DOMAIN d THEN d["ext"] ELSE "unknown") \o ")"

VideoLabel(d) ==
    ToString(d["height"]) \o "p"
      \o (IF "fps" \in DOMAIN d /\ d["fps"] > 30 THEN ToString(d["fps"]) ELSE "")
      \o ExtPart(d) \o SizeSuffix(d)

\* The bitrate is held in tenths of a kbps.
RoundedKbps(d) == (d["abr"] + 5) \div 10
WholeKbps(d) == d["abr"] \div 10

\* The original labelling rule: the audio label shows the bitrate rounded to
\* the nearest integer.
C19_RoundedBitrate ==
    (last.op = "VideoInfoThread.run" /\ last.result[1].signal = "finished") =>
        LET video == last.result[1].arg.video_formats
            audio == last.result[1].arg.audio_formats
        IN  /\ \A i \in 1..Len(video) : video[i][1] = VideoLabel(video[i][3])
            /\ \A i \in 1..Len(audio) :
                  audio[i][1] = ToString(RoundedKbps(audio[i][3])) \o "kbps"
                                  \o ExtPart(audio[i][3]) \o SizeSuffix(audio[i][3])

\* C19: the label of a video entry is "<height>p", then the frame rate only
\* if it is above 30, then " (<ext>)", then " (~<filesize div 1 MiB>MB)" only
\* if the size is there and not 0; the label of an audio entry is the bitrate
\* cut down to a whole number (48.9 gives 48), then "kbps (<ext>)" and the
\* same size suffix.
C19_Labels ==
    (last.op = "VideoInfoThread.run" /\ last.result[1].signal = "finished") =>
        LET video == last.result[1].arg.video_formats
            audio == last.result[1].arg.audio_formats
        IN  /\ \A i \in 1..Len(video) :
                  /\ video[i][1] = VideoLabel(video[i][3])
                  /\ video[i][3] = F18 => video[i][1] = "360p (mp4) (~5MB)"
                  /\ video[i][3] = F22 => video[i][1] = "720p60 (mp4)"
            /\ \A i \in 1..Len(audio) :
                  /\ audio[i][1] = ToString(WholeKbps(audio[i][3])) \o "kbps"
                                     \o ExtPart(audio[i][3]) \o SizeSuffix(audio[i][3])
                  /\ audio[i][3] = F139 => audio[i][1] = "48kbps (m4a)"
                  /\ audio[i][3] = F171 => audio[i][1] = "128kbps (webm)"

\* A probe gave a video format of 30 frames with a size, one of 60 frames, and
\* an audio format of 48.9 kbps.
C19_Witness ==
    /\ last.op = "VideoInfoThread.run"
    /\ last.result[1].signal = "finished"
    /\ Labels(last.result[1].arg.video_formats) = <<"720p60 (mp4)", "360p (mp4) (~5MB)">>
    /\ Labels(last.result[1].arg.audio_formats) = <<"48kbps (m4a)">>

\* C20: the thread of every accepted download gets the URL whose resolve gave
\* the lists the window holds, whatever the URL field shows by then.
C20_DownloadsResolvedUrl ==
    (last.op = "start_download" /\ last.result = "started") =>
        /\ resolved.status = "ok"
        /\ threads[Len(threads)].url = resolved.url

\* row is no row, or a row of a list with n entries.
RowOf(row, n) == row = -1 \/ row \in 0..(n - 1)

\* C21: between handlers the two list widgets show the labels of video_formats
\* and audio_formats, entry for entry, and their current rows are rows of
\* those lists; so start_download never ends in an IndexError, and a download
\* that starts reads its format ids at rows the lists have.
C21_ListsMatch ==
    /\ video_list.items = Labels(video_formats)
    /\ audio_list.items = Labels(audio_formats)
    /\ RowOf(video_list.row, Len(video_formats))
    /\ RowOf(audio_list.row, Len(audio_formats))
    /\ last.op = "start_download" => last.result # "IndexError"
    /\ (last.op = "start_download" /\ last.result = "started") =>
          /\ audio_list.row \in 0..(Len(audio_formats) - 1)
          /\ radio_video => video_list.row \in 0..(Len(video_formats) - 1)

\* A download started from the second row of a video list of two.
C21_Witness ==
    /\ last.op = "start_download"
    /\ last.result = "started"
    /\ radio_video
    /\ Len(video_formats) = 2
    /\ video_list.row = 1
    /\ audio_list.row = 0

\* The keys start_download and DownloadThread.run write.
WrittenKeys == {"outtmpl", "format", "merge_output_format", "postprocessors",
                "progress_hooks"}

\* C22: ydl_opts_base stays as setup_yt_dlp made it, with none of the keys a
\* download writes; the options of a resolve thread have no format,
\* post-processor, merge container or progress hook; and the options of a
\* download thread have post-processors iff "Audio Only" was chosen when it
\* started and a merge container iff "Video + Audio" was, whatever was
\* downloaded before.
C22_BaseUntouched ==
    /\ DOMAIN ydl_opts_base \cap WrittenKeys = {}
    /\ DOMAIN ydl_opts_base = {"no_warnings", "extract_flat", "writesubtitles",
                               "writeautomaticsub", "ignoreerrors", "ssl_context",
                               "quiet"}
    /\ \A i \in 1..Len(threads) :
          IF threads[i].kind = "VideoInfoThread"
          THEN DOMAIN threads[i].ydl_opts \cap WrittenKeys = {}
          ELSE ("postprocessors" \in DOMAIN threads[i].ydl_opts)
                  <=> ("merge_output_format" \notin DOMAIN threads[i].ydl_opts)
    /\ (last.op = "start_download" /\ last.result = "started") =>
          LET opts == threads[Len(threads)].ydl_opts
          IN  /\ ("postprocessors" \in DOMAIN opts) <=> ~radio_video
              /\ ("merge_output_format" \in DOMAIN opts) <=> radio_video
              /\ "progress_hooks" \notin DOMAIN opts

\* A "Video + Audio" download started after an "Audio Only" download of the
\* same lists, and its options have no post-processor.
C22_Witness ==
    /\ last.op = "start_download"
    /\ last.result = "started"
    /\ radio_video
    /\ resolved.audio_only
    /\ "postprocessors" \notin DOMAIN threads[Len(threads)].ydl_opts
    /\ "merge_output_format" \in DOMAIN threads[Len(threads)].ydl_opts

====
